---------------------------- MODULE Spec2Model ----------------------------
(***************************************************************************)
(* CaseIterDriverBase (openmdao.lib.drivers.caseiterdriver): the driver    *)
(* that runs a stream of cases through a model, either inline              *)
(* (sequential) or on servers obtained from the ResourceAllocationManager, *)
(* one service thread per server, all replying on one shared reply queue.  *)
(*                                                                         *)
(* The coordinator (the thread inside resume) is modelled by `pc`; each    *)
(* service thread by `tpc[w]`.  One action is one handler of the code: a   *)
(* call of _server_ready, one turn of a loop, one request served.          *)
(* The non-win32 branch of _start is the one modelled.  get_events() is    *)
(* taken to be empty and the recorder to be set.                           *)
(***************************************************************************)
EXTENDS Integers, Sequences, FiniteSets, TLC

\* ------------------------------------------------------------------ bounds
\* Cases the case iterator yields: 1, 2, .., NCases, in this order.
NCases == 3
\* Largest value RAM.max_servers may report (it may also report 0 or -1).
MaxCap == 2
\* Largest max_retries the driver or a case is configured with.
MaxRetries == 2
\* Failures the environment injects in one run (allocation, load, applying
\* inputs, model execution, harvesting outputs).
MaxFaults == 2

Cases == 1..NCases
\* Service threads are named '<driver>_<n>', n = 1, 2, ...; the sequential
\* path uses the server key None.
Workers == 1..MaxCap
NoServer == 0
\* self._iter is None
IterNone == -1
\* no case (None) in _server_cases
NoCase == 0

\* _EMPTY, _READY, _COMPLETE, _ERROR
EMPTY == "empty"
READY == "ready"
COMPLETE == "complete"
ERROR == "error"

VARIABLES
    \* configuration traits, fixed during a run
    sequential, reload_model, max_retries, cap,
    \* driver attributes
    iter, stop, egg_file, todo, rerun, reply_q, server_lock,
    servers, queues, in_use, server_states, server_cases, exceptions,
    top_levels, server_info,
    \* the request Queue each service thread created (self._queues maps the
    \* registered names to them)
    request_q,
    \* the Case objects: [max_retries, retries, msg, out]
    cases,
    \* the recorder: the records in the order record() was called
    recorded,
    \* coordinator: position in resume/_start, propagating exception,
    \* n_servers of _start, remaining turns of the shutdown wait
    pc, exc, n_servers, shut_i,
    \* service threads: position ("none", "allocating", "allocated",
    \* "serving", "exited"), whether `result` is bound, its value
    tpc, has_result, last_result,
    \* resource allocator: handles returned by allocate, release calls
    allocated, released,
    \* history: outcome of every attempt of a case, whether stop() was
    \* called in this run, whether _run_case was called after it, whether
    \* a thread was started after it, egg transfers per server, cases
    \* pulled from the iterator
    hist, stop_called, late_runs, late_starts, transfers, pulled,
    \* whether a case was pulled from the iterator after stop() was called
    late_pulls,
    \* history: the cases pulled into todo while a case waited in rerun, the
    \* request each service thread executed last ("none", "load", "exec"),
    \* the cases that were running on a server when stop() was called
    jumped, last_req, stopped_in_flight,
    \* history: the max_retries each case was created with (0: not given),
    \* the remove_egg argument of the resume() that last reached its finally
    \* clause, whether stop() was ever called
    own_max_retries, remove_egg, stopped_once,
    \* environment: failures injected so far
    faults

vars == << sequential, reload_model, max_retries, cap,
           iter, stop, egg_file, todo, rerun, reply_q, server_lock,
           servers, queues, in_use, server_states, server_cases, exceptions,
           top_levels, server_info, request_q, cases, recorded,
           pc, exc, n_servers, shut_i, tpc, has_result, last_result, last_req,
           allocated, released,
           hist, stop_called, stopped_once, stopped_in_flight, late_runs, late_starts,
           transfers, pulled, jumped, late_pulls, faults,
           own_max_retries, remove_egg >>

config == << sequential, reload_model, max_retries, cap, own_max_retries >>
threads == << tpc, has_result, last_result, last_req, allocated, released >>

\* ----------------------------------------------------------------- helpers
EmptyMap == [x \in {} |-> 0]

Put(f, k, v) == [x \in (DOMAIN f) \cup {k} |-> IF x = k THEN v ELSE f[x]]

\* any(self._in_use.values())
Busy == \E w \in DOMAIN in_use : in_use[w]

\* not self._todo and not self._rerun and self._iter is None
NothingLeft == todo = << >> /\ rerun = << >> /\ iter = IterNone

Record(c, cs) == [case |-> c, msg |-> cs[c].msg, retries |-> cs[c].retries,
                  out |-> cs[c].out]

\* self.recorder.record(case)
Recorder(rec, c, cs) == Append(rec, Record(c, cs))

TimesRecorded(c) == Cardinality({i \in DOMAIN recorded : recorded[i].case = c})

RecordsOf(c) == {recorded[i] : i \in {j \in DOMAIN recorded : recorded[j].case = c}}

\* ------------------------------------------------------------------- Init
\* A case's own max_retries: 0 stands for "not given" (None or 0, which
\* _run_case does not tell apart).  Only the first case may carry its own,
\* and then the largest value.
CaseMaxChoices ==
    {f \in [Cases -> {0, MaxRetries}] : \A c \in Cases : c > 1 => f[c] = 0}

\* CaseIterDriverBase.__init__
InitCommon ==
    /\ max_retries \in 0..MaxRetries
    /\ iter = IterNone
    /\ stop = FALSE
    /\ egg_file = FALSE
    /\ todo = << >> /\ rerun = << >>
    /\ reply_q = << >> /\ server_lock = FALSE
    /\ servers = EmptyMap /\ queues = {} /\ in_use = EmptyMap
    /\ request_q = [w \in Workers |-> << >>]
    /\ server_states = EmptyMap /\ server_cases = EmptyMap
    /\ exceptions = EmptyMap /\ top_levels = {} /\ server_info = EmptyMap
    /\ recorded = << >>
    /\ pc = "constructed" /\ exc = "none" /\ n_servers = 0 /\ shut_i = 0
    /\ tpc = [w \in Workers |-> "none"]
    /\ has_result = [w \in Workers |-> FALSE]
    /\ last_result = [w \in Workers |-> FALSE]
    /\ allocated = [w \in Workers |-> 0]
    /\ released = [w \in Workers |-> 0]
    /\ hist = [c \in Cases |-> << >>]
    /\ stop_called = FALSE /\ late_runs = FALSE /\ late_starts = FALSE
    /\ transfers = [w \in Workers |-> 0]
    /\ pulled = {} /\ late_pulls = FALSE
    /\ jumped = {} /\ last_req = [w \in Workers |-> "none"]
    /\ stopped_in_flight = {}
    /\ own_max_retries = [c \in Cases |-> cases[c].max_retries]
    /\ remove_egg = TRUE /\ stopped_once = FALSE
    /\ faults = 0

NewCases(f) == [c \in Cases |-> [max_retries |-> f[c], retries |-> 0,
                                  msg |-> "", out |-> FALSE]]

InitSeq ==
    \* reload_model has no effect here: _load_model(None) does nothing
    /\ sequential = TRUE /\ reload_model = TRUE /\ cap = 0
    /\ \E f \in CaseMaxChoices : cases = NewCases(f)
    /\ InitCommon

InitConc ==
    /\ sequential = FALSE /\ reload_model \in BOOLEAN /\ cap \in (-1)..MaxCap
    /\ cases = NewCases([c \in Cases |-> 0])
    /\ InitCommon

Init == InitSeq \/ InitConc

\* An injected failure counts against the budget.
Fault == faults < MaxFaults /\ faults' = faults + 1

NoFault == faults' = faults

\* ------------------------------------------------- _load_model, _run_case
\* (mutant) the load request is queued twice
LoadModelTwice(s) ==
    IF s = NoServer THEN request_q
    ELSE [request_q EXCEPT ![s] = Append(Append(@, "load"), "load")]

\* (mutant) the request queued to load the model is an execute request
LoadModelAsExecute(s) ==
    IF s = NoServer THEN request_q
    ELSE [request_q EXCEPT ![s] = Append(@, "exec")]

\* _load_model: queue a load request on the server's thread; nothing to do
\* for the sequential server (None).  It never raises _ServerError.
LoadModel(s) ==
    IF s = NoServer THEN request_q
    ELSE [request_q EXCEPT ![s] = Append(@, "load")]

\* _run_case, lines 414-420: defaults, then the case becomes the server's
\* in-flight case.
Prepared(c, isRerun) ==
    IF isRerun
    THEN [cases EXCEPT ![c].msg = ""]
    ELSE [cases EXCEPT ![c].max_retries = IF @ = 0 THEN max_retries ELSE @,
                       ![c].retries = 0,
                       ![c].msg = ""]

\* (mutant) the failed case is recorded and queued for a retry as well
RetryAndRecord(c, cs, rr) ==
    /\ cases' = [cs EXCEPT ![c].retries = @ + 1]
    /\ rerun' = IF cs[c].retries < cs[c].max_retries THEN Append(rr, c) ELSE rr
    /\ recorded' = Recorder(recorded, c, [cs EXCEPT ![c].msg = "set"])

\* (mutant) the failed case is recorded at once, never retried
NeverRetry(c, cs, rr) ==
    /\ cases' = [cs EXCEPT ![c].msg = "set"]
    /\ rerun' = rr
    /\ recorded' = Recorder(recorded, c, [cs EXCEPT ![c].msg = "set"])

\* (mutant) one retry too many: <= for <
RetryOnceMore(c, cs, rr) ==
    IF cs[c].retries <= cs[c].max_retries
    THEN /\ cases' = [cs EXCEPT ![c].retries = @ + 1]
         /\ rerun' = Append(rr, c)
         /\ recorded' = recorded
    ELSE /\ cases' = [cs EXCEPT ![c].msg = "set"]
         /\ rerun' = rr
         /\ recorded' = Recorder(recorded, c, [cs EXCEPT ![c].msg = "set"])

\* (mutant) the retry is not counted
RetryWithoutCount(c, cs, rr) ==
    IF cs[c].retries < cs[c].max_retries
    THEN /\ cases' = cs
         /\ rerun' = Append(rr, c)
         /\ recorded' = recorded
    ELSE /\ cases' = [cs EXCEPT ![c].msg = "set"]
         /\ rerun' = rr
         /\ recorded' = Recorder(recorded, c, [cs EXCEPT ![c].msg = "set"])

\* _run_case, lines 437-445: the handler of _ServerError.
RetryOrRecord(c, cs, rr) ==
    IF cs[c].retries < cs[c].max_retries
    THEN /\ cases' = [cs EXCEPT ![c].retries = @ + 1]
         /\ rerun' = Append(rr, c)
         /\ recorded' = recorded
    ELSE /\ cases' = [cs EXCEPT ![c].msg = "set"]
         /\ rerun' = rr
         /\ recorded' = Recorder(recorded, c, [cs EXCEPT ![c].msg = "set"])

\* Outcomes of workflow.run() / top.run(): it returns, raises an exception
\* with a text, or raises one whose str() is empty.
RunOutcomes == {"ok", "raise", "raise_blank"}

\* _run_case(case, server, rerun) with `td` and `rr` the queues after the
\* caller's pop.  Applying the inputs may fail (it always fails on a server
\* that holds no loaded model: _top_levels[server] is a KeyError); then
\* _model_execute runs the model inline (server None) or queues the request.
RunCase(c, s, isRerun, td, rr) ==
    LET cs == Prepared(c, isRerun) IN
    /\ server_cases' = Put(server_cases, s, c)
    /\ todo' = td
    /\ late_runs' = (late_runs \/ stop_called)
    /\ \/ \* _model_set raises: _ServerError
          /\ IF s # NoServer /\ s \notin top_levels THEN NoFault ELSE Fault
          /\ server_states' = Put(server_states, s, ERROR)
          /\ RetryOrRecord(c, cs, rr)
          /\ hist' = [hist EXCEPT ![c] = Append(@, "setfail")]
          /\ UNCHANGED << request_q, exceptions >>
       \/ \* inputs applied, model executed inline
          /\ s = NoServer
          /\ \E o \in RunOutcomes :
                /\ IF o = "ok" THEN NoFault ELSE Fault
                /\ exceptions' = Put(exceptions, s, o)
                /\ hist' = [hist EXCEPT ![c] = Append(@, o)]
          /\ server_states' = Put(server_states, s, COMPLETE)
          /\ cases' = cs /\ rerun' = rr
          /\ UNCHANGED << request_q, recorded >>
       \/ \* inputs applied, execution requested of the server's thread
          /\ s # NoServer /\ s \in top_levels
          /\ exceptions' = Put(exceptions, s, "ok")
          /\ NoFault
          /\ request_q' = [request_q EXCEPT ![s] = Append(@, "exec")]
          /\ server_states' = Put(server_states, s, COMPLETE)
          /\ cases' = cs /\ rerun' = rr
          /\ UNCHANGED << hist, recorded >>

\* ------------------------------------------------------------ _server_ready
\* The variables _server_ready may change.  `res` is what it returns
\* ("true"/"false"), or "raise" when an exception other than _ServerError
\* leaves it.
sched == << server_states, server_cases, todo, rerun, iter, request_q, cases,
            recorded, exceptions, hist, late_runs, pulled, jumped, late_pulls,
            faults >>

\* state == _EMPTY
ReadyEmpty(s, res) ==
    /\ server_states[s] = EMPTY
    /\ IF NothingLeft
       THEN /\ res = "false" /\ UNCHANGED sched
       ELSE IF s # NoServer /\ s \notin queues
       THEN \* _load_model: self._queues[server] is a KeyError
            /\ res = "raise" /\ UNCHANGED sched
       ELSE /\ res = "true"
            /\ request_q' = LoadModel(s)
            /\ server_states' = [server_states EXCEPT ![s] = READY]
            /\ UNCHANGED << server_cases, todo, rerun, iter, cases, recorded,
                            exceptions, hist, late_runs, pulled, jumped, late_pulls, faults >>

\* (mutant) the start-up case is run but left in todo
SelectCaseNoPop(s, stepping, res) ==
    IF todo # << >>
    THEN /\ res = "true"
         /\ RunCase(Head(todo), s, FALSE, todo, rerun)
         /\ UNCHANGED << iter, pulled, jumped, late_pulls >>
    ELSE /\ res = "false" /\ UNCHANGED sched

\* (mutant) a Ready server pulls the next case of the source before it
\* looks at rerun
SelectCaseFreshFirst(s, stepping, res) ==
    IF todo # << >>
    THEN /\ res = "true"
         /\ RunCase(Head(todo), s, FALSE, Tail(todo), rerun)
         /\ UNCHANGED << iter, pulled, jumped, late_pulls >>
    ELSE IF iter # IterNone /\ ~stepping /\ iter < NCases
    THEN /\ res = "true"
         /\ iter' = iter + 1
         /\ pulled' = pulled \cup {iter + 1}
         /\ jumped' = jumped
         /\ late_pulls' = (late_pulls \/ stop_called)
         /\ RunCase(iter + 1, s, FALSE, todo, rerun)
    ELSE IF rerun # << >>
    THEN /\ res = "true"
         /\ RunCase(Head(rerun), s, TRUE, todo, Tail(rerun))
         /\ UNCHANGED << iter, pulled, jumped, late_pulls >>
    ELSE /\ res = "false"
         /\ iter' = IF iter = IterNone \/ stepping THEN iter ELSE IterNone
         /\ UNCHANGED << server_states, server_cases, todo, rerun,
                         request_q, cases, recorded, exceptions, hist,
                         late_runs, pulled, jumped, late_pulls, faults >>

\* state == _READY, lines 339-360: the case to run is the first of todo,
\* else the first of rerun, else the iterator's next one.
SelectCase(s, stepping, res) ==
    IF todo # << >>
    THEN /\ res = "true"
         /\ RunCase(Head(todo), s, FALSE, Tail(todo), rerun)
         /\ UNCHANGED << iter, pulled, jumped, late_pulls >>
    ELSE IF rerun # << >>
    THEN /\ res = "true"
         /\ RunCase(Head(rerun), s, TRUE, todo, Tail(rerun))
         /\ UNCHANGED << iter, pulled, jumped, late_pulls >>
    ELSE IF iter = IterNone
    THEN /\ res = "false" /\ UNCHANGED sched
    ELSE IF stepping
    THEN /\ res = "false" /\ UNCHANGED sched
    ELSE IF iter >= NCases
    THEN \* StopIteration
         /\ res = "false"
         /\ iter' = IterNone
         /\ UNCHANGED << server_states, server_cases, todo, rerun,
                         request_q, cases, recorded, exceptions, hist,
                         late_runs, pulled, jumped, late_pulls, faults >>
    ELSE /\ res = "true"
         /\ iter' = iter + 1
         /\ pulled' = pulled \cup {iter + 1}
         /\ jumped' = jumped
         /\ late_pulls' = (late_pulls \/ stop_called)
         /\ RunCase(iter + 1, s, FALSE, todo, rerun)

\* (mutant) the stop request is not tested
ReadyReadyNoStopTest(s, stepping, res) ==
    /\ server_states[s] = READY
    /\ SelectCase(s, stepping, res)

\* state == _READY, lines 333-337: a stop request retires the server.
ReadyReady(s, stepping, res) ==
    /\ server_states[s] = READY
    /\ IF stop
       THEN /\ res = "false" /\ UNCHANGED sched
       ELSE SelectCase(s, stepping, res)

\* Harvesting the outputs of a case whose run raised nothing:
\* _model_get returns the value, or raises and the case gets a message.
Harvests == {"value", "getfail"}

\* The case after lines 366-378: outputs harvested or the message set;
\* str(exc) of an exception without text is the empty message.
Harvested(c, s, h) ==
    IF exceptions[s] = "ok"
    THEN IF h = "value" THEN [cases EXCEPT ![c].out = TRUE]
                        ELSE [cases EXCEPT ![c].msg = "get"]
    ELSE IF exceptions[s] = "raise" THEN [cases EXCEPT ![c].msg = "run"]
    ELSE cases

\* (mutant) the model is not reloaded after a case
ReadyCompleteNoReload(s, res) ==
    /\ server_states[s] = COMPLETE
    /\ server_cases[s] # NoCase
    /\ LET c == server_cases[s] IN
       \E h \in Harvests :
          LET cs == Harvested(c, s, h) IN
             /\ (exceptions[s] # "ok" => h = "value")
             /\ IF h = "value" THEN NoFault ELSE Fault
             /\ cases' = cs
             /\ recorded' = Recorder(recorded, c, cs)
             /\ request_q' = request_q
    /\ server_cases' = [server_cases EXCEPT ![s] = NoCase]
    /\ server_states' = [server_states EXCEPT ![s] = READY]
    /\ res = "true"
    /\ UNCHANGED << todo, rerun, iter, exceptions, hist, late_runs, pulled, jumped,
                    late_pulls >>

\* state == _COMPLETE
ReadyComplete(s, res) ==
    /\ server_states[s] = COMPLETE
    /\ server_cases[s] # NoCase
    /\ LET c == server_cases[s] IN
       \E h \in Harvests :
          LET cs == Harvested(c, s, h) IN
             /\ (exceptions[s] # "ok" => h = "value")
             /\ IF h = "value" THEN NoFault ELSE Fault
             /\ cases' = cs
             /\ recorded' = Recorder(recorded, c, cs)
             /\ request_q' = IF cs[c].msg = "" /\ ~reload_model
                             THEN request_q ELSE LoadModel(s)
    /\ server_cases' = [server_cases EXCEPT ![s] = NoCase]
    /\ server_states' = [server_states EXCEPT ![s] = READY]
    /\ res = "true"
    /\ UNCHANGED << todo, rerun, iter, exceptions, hist, late_runs, pulled, jumped, late_pulls >>

\* (mutant) a server in the Error state is retired, not made Ready again
ReadyErrorRetires(s, res) ==
    /\ server_states[s] = ERROR
    /\ res = "false"
    /\ UNCHANGED sched

\* state == _ERROR
ReadyError(s, res) ==
    /\ server_states[s] = ERROR
    /\ server_cases' = [server_cases EXCEPT ![s] = NoCase]
    /\ request_q' = LoadModel(s)
    /\ server_states' = [server_states EXCEPT ![s] = READY]
    /\ res = "true"
    /\ UNCHANGED << todo, rerun, iter, cases, recorded, exceptions, hist,
                    late_runs, pulled, jumped, late_pulls, faults >>

ServerReady(s, stepping, res) ==
    \/ ReadyEmpty(s, res)
    \/ ReadyReady(s, stepping, res)
    \/ ReadyComplete(s, res)
    \/ ReadyError(s, res)

Results == {"true", "false", "raise"}

\* ------------------------------------------------------ setup, resume, stop
\* The driver variables only _start and the service threads work on.
pool == << reply_q, server_lock, servers, queues, in_use, top_levels,
           server_info, n_servers, shut_i, late_starts, transfers >>

\* setup(): _cleanup, the egg saved for concurrent evaluation, a new iterator.
Setup ==
    /\ pc = "constructed"
    /\ \E replicate \in BOOLEAN :
          \* _cleanup(remove_egg=replicate) leaves no egg, whatever replicate
          LET cleaned == FALSE IN
          egg_file' = IF ~sequential /\ (replicate \/ ~cleaned) THEN TRUE
                      ELSE cleaned
    /\ remove_egg' = remove_egg
    /\ iter' = 0
    /\ pc' = "ready"
    /\ UNCHANGED << config, stop, server_states, server_cases, todo, rerun,
                    request_q, cases, recorded, exceptions, hist, late_runs,
                    pulled, jumped, late_pulls, faults, pool, threads, exc, stop_called, stopped_once, stopped_in_flight >>

\* (mutant) a finished run is not refused
ResumeBeginNoTest ==
    /\ \/ pc = "ready"
       \/ pc \in {"returned", "raised"} /\ (sequential \/ iter = IterNone)
    /\ stop' = FALSE
    /\ stop_called' = FALSE
    /\ stopped_in_flight' = {}
    /\ stopped_once' = stopped_once
    /\ pc' = (IF sequential THEN "seq_loop" ELSE "start") /\ exc' = "none"
    /\ UNCHANGED << config, egg_file, remove_egg, sched, pool, threads >>

\* resume(), lines 85-101: the flag is cleared, a finished run is refused.
\* resume() may be called again after it returned or raised; a concurrent
\* run that ended with cases left is not continued here (its service
\* threads may still be alive).
ResumeBegin ==
    /\ \/ pc = "ready"
       \/ pc \in {"returned", "raised"} /\ (sequential \/ iter = IterNone)
    /\ stop' = FALSE
    /\ stop_called' = FALSE
    /\ stopped_in_flight' = {}
    /\ stopped_once' = stopped_once
    /\ IF iter = IterNone
       THEN pc' = "raised" /\ exc' = "RunComplete"
       ELSE pc' = (IF sequential THEN "seq_loop" ELSE "start") /\ exc' = "none"
    /\ UNCHANGED << config, egg_file, remove_egg, sched, pool, threads >>

\* The cases whose execution was requested and is not harvested yet: the
\* case of every server in state _COMPLETE.
InFlight ==
    {server_cases[s] : s \in {t \in DOMAIN server_cases :
                                 /\ server_states[t] = COMPLETE
                                 /\ server_cases[t] # NoCase}}

InRun == pc \notin {"constructed", "ready", "returned", "raised"}

\* stop(), called from any thread while resume() is running (once a run).
Stop ==
    /\ InRun
    /\ ~stop_called
    /\ stop' = TRUE
    /\ stop_called' = TRUE
    /\ stopped_in_flight' = InFlight
    /\ stopped_once' = TRUE
    /\ UNCHANGED << config, egg_file, remove_egg, sched, pool, threads, pc, exc >>

\* resume(), lines 92-94: the test of the sequential loop.
SeqLoopTest ==
    /\ pc = "seq_loop"
    /\ pc' = IF iter = IterNone \/ stop THEN "cleanup" ELSE "step"
    /\ UNCHANGED << config, stop, egg_file, remove_egg, sched, pool, threads, exc,
                    stop_called, stopped_once, stopped_in_flight >>

\* step(), lines 110-122: the flag is cleared, the next case is appended to
\* todo; StopIteration with nothing to rerun ends the run.
StepBegin ==
    /\ pc = "step"
    /\ stop' = FALSE
    /\ IF iter < NCases
       THEN /\ todo' = Append(todo, iter + 1)
            /\ iter' = iter + 1
            /\ pulled' = pulled \cup {iter + 1}
            /\ jumped' = IF rerun # << >> THEN jumped \cup {iter + 1}
                          ELSE jumped
            /\ late_pulls' = (late_pulls \/ stop_called)
            /\ pc' = "step_loop"
       ELSE /\ todo' = todo /\ pulled' = pulled /\ late_pulls' = late_pulls
            /\ jumped' = jumped
            /\ iter' = IF rerun = << >> THEN IterNone ELSE iter
            /\ pc' = IF rerun = << >> THEN "cleanup" ELSE "step_loop"
    /\ IF pc' = "step_loop"
       THEN /\ server_cases' = Put(server_cases, NoServer, NoCase)
            /\ server_states' = Put(server_states, NoServer, EMPTY)
       ELSE UNCHANGED << server_cases, server_states >>
    /\ UNCHANGED << config, egg_file, remove_egg, rerun, request_q, cases, recorded,
                    exceptions, hist, late_runs, faults, pool, threads, exc,
                    stop_called, stopped_once, stopped_in_flight >>

\* step(), lines 123-124: while self._server_ready(None, stepping=True)
StepServerReady ==
    /\ pc = "step_loop"
    /\ \E res \in Results :
          /\ ServerReady(NoServer, TRUE, res)
          /\ pc' = IF res = "true" THEN "step_loop" ELSE "seq_loop"
    /\ UNCHANGED << config, stop, egg_file, remove_egg, pool, threads, exc, stop_called, stopped_once, stopped_in_flight >>

\* (mutant) todo and rerun are not cleared
CleanupKeepsQueues ==
    /\ pc = "cleanup"
    /\ reply_q' = << >> /\ server_lock' = FALSE
    /\ servers' = EmptyMap /\ top_levels' = {} /\ server_info' = EmptyMap
    /\ queues' = {} /\ in_use' = EmptyMap
    /\ server_states' = EmptyMap /\ server_cases' = EmptyMap
    /\ exceptions' = EmptyMap
    /\ UNCHANGED << todo, rerun >>
    /\ \E arg \in BOOLEAN : remove_egg' = arg
    /\ egg_file' = FALSE
    /\ pc' = "finish"
    /\ UNCHANGED << config, iter, stop, request_q, cases, recorded, hist,
                    late_runs, pulled, jumped, late_pulls, faults, n_servers, shut_i, late_starts,
                    transfers, threads, exc, stop_called, stopped_once, stopped_in_flight >>

\* _cleanup(remove_egg), the finally clause of resume(): the argument of
\* resume() is read here for the first time, and it is not looked at; the
\* egg is removed whenever there is one.
Cleanup ==
    /\ pc = "cleanup"
    /\ reply_q' = << >> /\ server_lock' = FALSE
    /\ servers' = EmptyMap /\ top_levels' = {} /\ server_info' = EmptyMap
    /\ queues' = {} /\ in_use' = EmptyMap
    /\ server_states' = EmptyMap /\ server_cases' = EmptyMap
    /\ exceptions' = EmptyMap
    /\ todo' = << >> /\ rerun' = << >>
    /\ \E arg \in BOOLEAN : remove_egg' = arg
    /\ egg_file' = FALSE
    /\ pc' = "finish"
    /\ UNCHANGED << config, iter, stop, request_q, cases, recorded, hist,
                    late_runs, pulled, jumped, late_pulls, faults, n_servers, shut_i, late_starts,
                    transfers, threads, exc, stop_called, stopped_once, stopped_in_flight >>

\* resume(), lines 105-106, or the exception that left the try block.
Finish ==
    /\ pc = "finish"
    /\ IF exc # "none"
       THEN pc' = "raised" /\ exc' = exc
       ELSE IF stop
       THEN pc' = "raised" /\ exc' = "RunStopped"
       ELSE pc' = "returned" /\ exc' = exc
    /\ UNCHANGED << config, stop, egg_file, remove_egg, sched, pool, threads,
                    stop_called, stopped_once, stopped_in_flight >>

NextSeq ==
    \/ Setup \/ ResumeBegin \/ Stop \/ SeqLoopTest \/ StepBegin
    \/ StepServerReady \/ Cleanup \/ Finish

SpecSeq == InitSeq /\ [][NextSeq]_vars

\* --------------------------------------------------------------- _start
Reply(w, result, raised) == [name |-> w, result |-> result, exc |-> raised]

\* (mutant) the capacity check lets zero servers through: < for <=
StartBeginZeroAllowed ==
    /\ pc = "start"
    /\ IF cap < 0
       THEN /\ exc' = "RuntimeError" /\ pc' = "cleanup"
            /\ UNCHANGED << server_lock, reply_q, n_servers >>
       ELSE /\ server_lock' = TRUE /\ reply_q' = << >> /\ n_servers' = 0
            /\ pc' = "startup" /\ exc' = exc
    /\ UNCHANGED << config, stop, egg_file, remove_egg, sched, servers, queues, in_use,
                    top_levels, server_info, shut_i, late_starts, transfers,
                    threads, stop_called, stopped_once, stopped_in_flight >>

\* _start, lines 168-183: the capacity check, then the lock and reply queue.
StartBegin ==
    /\ pc = "start"
    /\ IF cap <= 0
       THEN /\ exc' = "RuntimeError" /\ pc' = "cleanup"
            /\ UNCHANGED << server_lock, reply_q, n_servers >>
       ELSE /\ server_lock' = TRUE /\ reply_q' = << >> /\ n_servers' = 0
            /\ pc' = "startup" /\ exc' = exc
    /\ UNCHANGED << config, stop, egg_file, remove_egg, sched, servers, queues, in_use,
                    top_levels, server_info, shut_i, late_starts, transfers, threads, stop_called, stopped_once, stopped_in_flight >>

\* (mutant) one thread more than the capacity: <= for <
StartupHeadOneMore ==
    /\ pc = "startup"
    /\ IF ~(n_servers <= cap) \/ stop \/ iter = IterNone
       THEN /\ pc' = "main"
            /\ UNCHANGED << iter, todo, pulled, jumped, late_pulls, n_servers, servers, in_use,
                            server_cases, server_states, tpc, late_starts >>
       ELSE IF iter >= NCases /\ rerun = << >>
       THEN \* StopIteration and nothing to rerun
            /\ iter' = IterNone
            /\ pc' = "main"
            /\ UNCHANGED << todo, pulled, jumped, late_pulls, n_servers, servers, in_use,
                            server_cases, server_states, tpc, late_starts >>
       ELSE LET name == n_servers + 1 IN
            /\ IF iter < NCases
               THEN /\ todo' = Append(todo, iter + 1)
                    /\ iter' = iter + 1
                    /\ pulled' = pulled \cup {iter + 1}
                    /\ jumped' = IF rerun # << >>
                                  THEN jumped \cup {iter + 1} ELSE jumped
                    /\ late_pulls' = (late_pulls \/ stop_called)
               ELSE UNCHANGED << todo, iter, pulled, jumped, late_pulls >>
            /\ n_servers' = name
            /\ servers' = Put(servers, name, FALSE)
            /\ in_use' = Put(in_use, name, TRUE)
            /\ server_cases' = Put(server_cases, name, NoCase)
            /\ server_states' = Put(server_states, name, EMPTY)
            /\ tpc' = [tpc EXCEPT ![name] = "allocating"]
            /\ late_starts' = (late_starts \/ stop_called)
            /\ pc' = "startup_events"
    /\ UNCHANGED << config, stop, egg_file, remove_egg, rerun, request_q, cases, recorded,
                    exceptions, hist, late_runs, faults, reply_q, server_lock,
                    queues, top_levels, server_info, shut_i, transfers, has_result, last_result, last_req, allocated,
                    released, exc, stop_called, stopped_once, stopped_in_flight >>

\* _start, lines 185-211: one turn of the start-up loop.  A case is pulled
\* into todo and a service thread is started for it.
StartupHead ==
    /\ pc = "startup"
    /\ IF ~(n_servers < cap) \/ stop \/ iter = IterNone
       THEN /\ pc' = "main"
            /\ UNCHANGED << iter, todo, pulled, jumped, late_pulls, n_servers, servers, in_use,
                            server_cases, server_states, tpc, late_starts >>
       ELSE IF iter >= NCases /\ rerun = << >>
       THEN \* StopIteration and nothing to rerun
            /\ iter' = IterNone
            /\ pc' = "main"
            /\ UNCHANGED << todo, pulled, jumped, late_pulls, n_servers, servers, in_use,
                            server_cases, server_states, tpc, late_starts >>
       ELSE LET name == n_servers + 1 IN
            /\ IF iter < NCases
               THEN /\ todo' = Append(todo, iter + 1)
                    /\ iter' = iter + 1
                    /\ pulled' = pulled \cup {iter + 1}
                    /\ jumped' = IF rerun # << >>
                                  THEN jumped \cup {iter + 1} ELSE jumped
                    /\ late_pulls' = (late_pulls \/ stop_called)
               ELSE UNCHANGED << todo, iter, pulled, jumped, late_pulls >>
            /\ n_servers' = name
            /\ servers' = Put(servers, name, FALSE)
            /\ in_use' = Put(in_use, name, TRUE)
            /\ server_cases' = Put(server_cases, name, NoCase)
            /\ server_states' = Put(server_states, name, EMPTY)
            /\ tpc' = [tpc EXCEPT ![name] = "allocating"]
            /\ late_starts' = (late_starts \/ stop_called)
            /\ pc' = "startup_events"
    /\ UNCHANGED << config, stop, egg_file, remove_egg, rerun, request_q, cases, recorded,
                    exceptions, hist, late_runs, faults, reply_q, server_lock,
                    queues, top_levels, server_info, shut_i, transfers, has_result, last_result, last_req, allocated,
                    released, exc, stop_called, stopped_once, stopped_in_flight >>

\* What the coordinator does with a reply in the main loop (line 267):
\* self._in_use[name] = self._server_ready(name)
HandleReply(name, next_pc) ==
    \E res \in Results :
       /\ ServerReady(name, FALSE, res)
       /\ IF res = "raise"
          THEN /\ exc' = "KeyError" /\ pc' = "cleanup" /\ in_use' = in_use
          ELSE /\ exc' = exc /\ pc' = next_pc
               /\ in_use' = [in_use EXCEPT ![name] = (res = "true")]

\* _start, lines 215-225: a reply arrives within the 0.1 s of the start-up
\* loop.  A thread whose allocation failed is marked not in use.
StartupReply ==
    /\ pc = "startup_events"
    /\ Busy
    /\ reply_q # << >>
    /\ reply_q' = Tail(reply_q)
    /\ LET name == Head(reply_q).name IN
       IF servers[name] = FALSE
       THEN /\ in_use' = [in_use EXCEPT ![name] = FALSE]
            /\ UNCHANGED << sched, pc, exc >>
       ELSE HandleReply(name, "startup_events")
    /\ UNCHANGED << config, stop, egg_file, remove_egg, server_lock, servers, queues,
                    top_levels, server_info, n_servers, shut_i, late_starts,
                    transfers, threads, stop_called, stopped_once, stopped_in_flight >>

\* _start, lines 215-219: no server in use, or the 0.1 s ran out.
StartupBreak ==
    /\ pc = "startup_events"
    /\ ~Busy \/ reply_q = << >>
    /\ pc' = "startup"
    /\ UNCHANGED << config, stop, egg_file, remove_egg, sched, pool, threads, exc,
                    stop_called, stopped_once, stopped_in_flight >>

\* (mutant) once stop is requested the sender of a reply is retired without
\* a call of _server_ready
MainReplyStopRetires ==
    /\ pc = "main"
    /\ Busy
    /\ reply_q # << >>
    /\ reply_q' = Tail(reply_q)
    /\ IF stop
       THEN /\ in_use' = [in_use EXCEPT ![Head(reply_q).name] = FALSE]
            /\ UNCHANGED << sched, pc, exc >>
       ELSE HandleReply(Head(reply_q).name, "main")
    /\ UNCHANGED << config, stop, egg_file, remove_egg, server_lock, servers, queues,
                    top_levels, server_info, n_servers, shut_i, late_starts,
                    transfers, threads, stop_called, stopped_once, stopped_in_flight >>

\* _start, lines 242-267: a reply is handled in the main loop.
MainReply ==
    /\ pc = "main"
    /\ Busy
    /\ reply_q # << >>
    /\ reply_q' = Tail(reply_q)
    /\ HandleReply(Head(reply_q).name, "main")
    /\ UNCHANGED << config, stop, egg_file, remove_egg, server_lock, servers, queues,
                    top_levels, server_info, n_servers, shut_i, late_starts,
                    transfers, threads, stop_called, stopped_once, stopped_in_flight >>

\* _start, lines 243-265: with nothing left to do the wait is 30 s; when it
\* runs out the servers still in use are logged and the loop goes on.
MainTimeout ==
    /\ pc = "main"
    /\ Busy
    /\ reply_q = << >>
    /\ NothingLeft
    /\ UNCHANGED vars

\* (mutant) the shut-down request is not sent
ShutdownSendNothing ==
    /\ pc = "main"
    /\ ~Busy
    /\ shut_i' = Cardinality(queues)
    /\ pc' = "shutdown_wait"
    /\ UNCHANGED << config, stop, egg_file, remove_egg, sched, reply_q, server_lock,
                    servers, queues, in_use, top_levels, server_info,
                    n_servers, late_starts, transfers, threads, exc,
                    stop_called, stopped_once, stopped_in_flight >>

\* (mutant) the shut-down requests are sent as soon as nothing is left to
\* assign, whether servers are in use or not
ShutdownSendWhileBusy ==
    /\ pc = "main"
    /\ NothingLeft
    /\ request_q' = [w \in Workers |->
                        IF w \in queues THEN Append(request_q[w], "quit")
                        ELSE request_q[w]]
    /\ shut_i' = Cardinality(queues)
    /\ pc' = "shutdown_wait"
    /\ UNCHANGED << config, stop, egg_file, remove_egg, server_states, server_cases, todo,
                    rerun, iter, cases, recorded, exceptions, hist, late_runs,
                    pulled, jumped, late_pulls, faults, reply_q, server_lock, servers, queues,
                    in_use, top_levels, server_info, n_servers, late_starts,
                    transfers, threads, exc, stop_called, stopped_once, stopped_in_flight >>

\* _start, lines 269-272: no server is in use; None is put on every
\* registered request queue.
ShutdownSend ==
    /\ pc = "main"
    /\ ~Busy
    /\ request_q' = [w \in Workers |->
                        IF w \in queues THEN Append(request_q[w], "quit")
                        ELSE request_q[w]]
    /\ shut_i' = Cardinality(queues)
    /\ pc' = "shutdown_wait"
    /\ UNCHANGED << config, stop, egg_file, remove_egg, server_states, server_cases, todo,
                    rerun, iter, cases, recorded, exceptions, hist, late_runs,
                    pulled, jumped, late_pulls, faults, reply_q, server_lock, servers, queues,
                    in_use, top_levels, server_info, n_servers, late_starts,
                    transfers, threads, exc, stop_called, stopped_once, stopped_in_flight >>

\* _start, lines 273-280: one turn of the wait for the acknowledgements:
\* a reply within 1 s unregisters its sender, otherwise the turn is spent.
ShutdownWait ==
    /\ pc = "shutdown_wait"
    /\ shut_i > 0
    /\ shut_i' = shut_i - 1
    /\ IF reply_q = << >>
       THEN UNCHANGED << reply_q, queues, pc, exc >>
       ELSE /\ reply_q' = Tail(reply_q)
            /\ IF Head(reply_q).name \in queues
               THEN /\ queues' = queues \ {Head(reply_q).name}
                    /\ UNCHANGED << pc, exc >>
               ELSE /\ exc' = "KeyError" /\ pc' = "cleanup"
                    /\ queues' = queues
    /\ UNCHANGED << config, stop, egg_file, remove_egg, sched, server_lock, servers,
                    in_use, top_levels, server_info, n_servers, late_starts,
                    transfers, threads, stop_called, stopped_once, stopped_in_flight >>

\* _start returns.
ShutdownDone ==
    /\ pc = "shutdown_wait"
    /\ shut_i = 0
    /\ pc' = "cleanup"
    /\ UNCHANGED << config, stop, egg_file, remove_egg, sched, pool, threads, exc,
                    stop_called, stopped_once, stopped_in_flight >>

\* --------------------------------------------------------- _service_loop
\* _service_loop, lines 486-489: the finally clause, RAM.release(server).
\* It is taken together with the step that ends the thread.
Release(w) == [released EXCEPT ![w] = @ + 1]

\* A reply put on the reply queue the thread was given.  After _cleanup
\* nobody reads that queue any more.
Post(r) == IF server_lock THEN Append(reply_q, r) ELSE reply_q

\* _service_loop, lines 451-456: RAM.allocate returns a server, or None and
\* the thread reports the failure and ends.
WorkerAllocate(w) ==
    /\ tpc[w] = "allocating"
    /\ \/ /\ NoFault
          /\ allocated' = [allocated EXCEPT ![w] = @ + 1]
          /\ tpc' = [tpc EXCEPT ![w] = "allocated"]
          /\ reply_q' = reply_q
       \/ /\ Fault
          /\ allocated' = allocated
          /\ tpc' = [tpc EXCEPT ![w] = "exited"]
          /\ reply_q' = Post(Reply(w, FALSE, FALSE))
    /\ UNCHANGED << config, iter, stop, egg_file, remove_egg, todo, rerun, server_lock,
                    servers, queues, in_use, server_states, server_cases,
                    exceptions, top_levels, server_info, request_q, cases,
                    recorded, pc, exc, n_servers, shut_i, has_result,
                    last_result, last_req, released, hist, stop_called, stopped_once, stopped_in_flight, late_runs,
                    late_starts, transfers, pulled, jumped, late_pulls >>

\* _service_loop, lines 459-469: the server is registered under the lock
\* and start-up is acknowledged.  After _cleanup the lock is None, the
\* `with` raises and the finally clause releases the server.
WorkerRegister(w) ==
    /\ tpc[w] = "allocated"
    /\ IF server_lock
       THEN /\ servers' = Put(servers, w, TRUE)
            /\ server_info' = Put(server_info, w, FALSE)
            /\ queues' = queues \cup {w}
            /\ request_q' = [request_q EXCEPT ![w] = << >>]
            /\ reply_q' = Append(reply_q, Reply(w, TRUE, FALSE))
            /\ tpc' = [tpc EXCEPT ![w] = "serving"]
            /\ released' = released
       ELSE /\ tpc' = [tpc EXCEPT ![w] = "exited"]
            /\ released' = Release(w)
            /\ UNCHANGED << servers, server_info, queues, request_q, reply_q >>
    /\ UNCHANGED << config, iter, stop, egg_file, remove_egg, todo, rerun, server_lock,
                    in_use, server_states, server_cases, exceptions,
                    top_levels, cases, recorded, pc, exc, n_servers, shut_i,
                    has_result, last_result, last_req, allocated, hist,
                    stop_called, stopped_once, stopped_in_flight, late_runs, late_starts, transfers, pulled, jumped, late_pulls, faults >>

\* Outcomes of _remote_load_model: the model is loaded; load_model returns
\* nothing; the request raises (in filexfer when the egg has to be
\* transferred, else in load_model).
LoadOutcomes == {"ok", "false", "raise"}

\* _service_loop, lines 476-481, after the request returned or raised: the
\* reply is put, unless `result` was never bound (the request raised and
\* none returned before it), which ends the thread.
AfterRequest(w, raised, result) ==
    IF raised /\ ~has_result[w]
    THEN /\ tpc' = [tpc EXCEPT ![w] = "exited"]
         /\ released' = Release(w)
         /\ UNCHANGED << reply_q, has_result, last_result >>
    ELSE /\ tpc' = tpc
         /\ released' = released
         /\ has_result' = [has_result EXCEPT ![w] = @ \/ ~raised]
         /\ last_result' = [last_result EXCEPT ![w] =
                               IF raised THEN @ ELSE result]
         /\ reply_q' = Post(Reply(w, IF raised THEN last_result[w] ELSE result,
                                  raised))

\* (mutant) the transferred egg is not noted in the server's info
ServeLoadNoCache(w) ==
    /\ tpc[w] = "serving"
    /\ request_q[w] # << >> /\ Head(request_q[w]) = "load"
    /\ request_q' = [request_q EXCEPT ![w] = Tail(@)]
    /\ last_req' = [last_req EXCEPT ![w] = "load"]
    /\ IF w \notin DOMAIN server_info
       THEN \* after _cleanup: self._server_info[server] is a KeyError
            /\ AfterRequest(w, TRUE, FALSE)
            /\ NoFault
            /\ UNCHANGED << server_info, transfers, top_levels >>
       ELSE \E o \in LoadOutcomes :
            /\ IF o = "ok" THEN NoFault ELSE Fault
            /\ IF ~server_info[w] /\ o # "raise"
               THEN \* egg_file is not self._egg_file: transfer
                    /\ transfers' = [transfers EXCEPT ![w] = @ + 1]
                    /\ server_info' = server_info
               ELSE UNCHANGED << transfers, server_info >>
            /\ top_levels' = IF o = "ok" THEN top_levels \cup {w}
                             ELSE top_levels
            /\ AfterRequest(w, o = "raise", o = "ok")
    /\ UNCHANGED << config, iter, stop, egg_file, remove_egg, todo, rerun, server_lock,
                    servers, queues, in_use, server_states, server_cases,
                    exceptions, cases, recorded, pc, exc, n_servers, shut_i,
                    allocated, hist, stop_called, stopped_once, stopped_in_flight, late_runs,
                    late_starts, pulled, jumped, late_pulls >>

\* _service_loop serving (self._remote_load_model, server)
ServeLoad(w) ==
    /\ tpc[w] = "serving"
    /\ request_q[w] # << >> /\ Head(request_q[w]) = "load"
    /\ request_q' = [request_q EXCEPT ![w] = Tail(@)]
    /\ last_req' = [last_req EXCEPT ![w] = "load"]
    /\ IF w \notin DOMAIN server_info
       THEN \* after _cleanup: self._server_info[server] is a KeyError
            /\ AfterRequest(w, TRUE, FALSE)
            /\ NoFault
            /\ UNCHANGED << server_info, transfers, top_levels >>
       ELSE \E o \in LoadOutcomes :
            /\ IF o = "ok" THEN NoFault ELSE Fault
            /\ IF ~server_info[w] /\ o # "raise"
               THEN \* egg_file is not self._egg_file: transfer
                    /\ transfers' = [transfers EXCEPT ![w] = @ + 1]
                    /\ server_info' = [server_info EXCEPT ![w] = TRUE]
               ELSE UNCHANGED << transfers, server_info >>
            /\ top_levels' = IF o = "ok" THEN top_levels \cup {w}
                             ELSE top_levels
            /\ AfterRequest(w, o = "raise", o = "ok")
    /\ UNCHANGED << config, iter, stop, egg_file, remove_egg, todo, rerun, server_lock,
                    servers, queues, in_use, server_states, server_cases,
                    exceptions, cases, recorded, pc, exc, n_servers, shut_i,
                    allocated, hist, stop_called, stopped_once, stopped_in_flight, late_runs,
                    late_starts, pulled, jumped, late_pulls >>

\* _service_loop serving (self._remote_model_execute, server): the run's
\* exception, if any, is kept in _exceptions; the request returns None.
ServeExecute(w) ==
    /\ tpc[w] = "serving"
    /\ request_q[w] # << >> /\ Head(request_q[w]) = "exec"
    /\ request_q' = [request_q EXCEPT ![w] = Tail(@)]
    /\ last_req' = [last_req EXCEPT ![w] = "exec"]
    /\ IF w \notin DOMAIN server_info
       THEN \* after _cleanup: the handler's log line raises KeyError
            /\ AfterRequest(w, TRUE, FALSE)
            /\ exceptions' = Put(exceptions, w, "raise")
            /\ NoFault
            /\ hist' = hist
       ELSE \E o \in RunOutcomes :
            /\ IF o = "ok" THEN NoFault ELSE Fault
            /\ exceptions' = IF o = "ok" THEN exceptions
                             ELSE Put(exceptions, w, o)
            /\ hist' = [hist EXCEPT ![server_cases[w]] = Append(@, o)]
            /\ AfterRequest(w, FALSE, FALSE)
    /\ UNCHANGED << config, iter, stop, egg_file, remove_egg, todo, rerun, server_lock,
                    servers, queues, in_use, server_states, server_cases,
                    top_levels, server_info, cases, recorded, pc, exc,
                    n_servers, shut_i, allocated, stop_called, stopped_once, stopped_in_flight,
                    late_runs, late_starts, transfers, pulled, jumped, late_pulls >>

\* _service_loop, lines 473-475 and 486-489: None is the request to shut
\* down; it is acknowledged and the server is released.
ServeQuit(w) ==
    /\ tpc[w] = "serving"
    /\ request_q[w] # << >> /\ Head(request_q[w]) = "quit"
    /\ request_q' = [request_q EXCEPT ![w] = Tail(@)]
    /\ reply_q' = Post(Reply(w, TRUE, FALSE))
    /\ tpc' = [tpc EXCEPT ![w] = "exited"]
    /\ released' = Release(w)
    /\ UNCHANGED << config, iter, stop, egg_file, remove_egg, todo, rerun, server_lock,
                    servers, queues, in_use, server_states, server_cases,
                    exceptions, top_levels, server_info, cases, recorded, pc,
                    exc, n_servers, shut_i, has_result, last_result, last_req,
                    allocated, hist, stop_called, stopped_once, stopped_in_flight, late_runs,
                    late_starts, transfers, pulled, jumped, late_pulls, faults >>

Worker(w) ==
    \/ WorkerAllocate(w) \/ WorkerRegister(w) \/ ServeLoad(w)
    \/ ServeExecute(w) \/ ServeQuit(w)

Coordinator ==
    \/ Setup \/ ResumeBegin \/ StartBegin \/ StartupHead \/ StartupReply
    \/ StartupBreak \/ MainReply \/ MainTimeout \/ ShutdownSend
    \/ ShutdownWait \/ ShutdownDone \/ Cleanup \/ Finish

NextConc == Coordinator \/ Stop \/ \E w \in Workers : Worker(w)

SpecConc == InitConc /\ [][NextConc]_vars

Next == NextSeq \/ NextConc

Spec == Init /\ [][Next]_vars

\* The coordinator thread and every service thread keep running: a step
\* that stays possible is taken.
FairSpecConc ==
    /\ SpecConc
    /\ WF_vars(Coordinator)
    /\ \A w \in Workers : WF_vars(Worker(w))

\* ------------------------------------------------------------ properties
\* A service thread that can take no step: not started, ended, or waiting
\* on an empty request queue.
Idle(w) == \/ tpc[w] \in {"none", "exited"}
           \/ tpc[w] = "serving" /\ request_q[w] = << >>

\* The coordinator waits in the main loop for a reply no thread will send.
Hung == /\ pc = "main" /\ Busy /\ reply_q = << >>
        /\ \A w \in Workers : Idle(w)

Failed(r) == r.msg # ""

\* C1: no case is recorded twice, in either mode, whatever fails or is
\* retried.
C1_NoCaseRecordedTwice == \A c \in Cases : TimesRecorded(c) <= 1

\* C1 witness: a concurrent run in which a case was attempted twice (it
\* failed and was taken from rerun) and has been recorded.
C1_Witness ==
    /\ ~sequential
    /\ \E c \in Cases : Len(hist[c]) >= 2 /\ TimesRecorded(c) = 1

\* C2 (as claimed): when a concurrent run returns and no stop was requested,
\* every case pulled from the case source has been recorded.
C2_PulledAreRecorded ==
    (pc = "returned" /\ ~sequential /\ ~stop_called)
        => \A c \in pulled : TimesRecorded(c) = 1

C5_HandlesReleased ==
    (~sequential /\ Hung) => \A w \in Workers : released[w] = allocated[w]

C7_StoppedRunDoesNotReturn == pc = "returned" => ~stop_called

\* C8 (as claimed): a concurrent run with capacity >= 2 against a model
\* that never fails records what the sequential run records, every case of
\* the source once; so it does when the run has come to rest.
C8_ConcurrentRecordsAllCases ==
    (/\ ~sequential /\ cap >= 2 /\ ~stop_called /\ faults = 0
     /\ (pc = "returned" \/ Hung))
        => \A c \in Cases : TimesRecorded(c) = 1

\* C9: with max_servers <= 0 the concurrent run raises before any case is
\* pulled, any thread started, any server allocated or any case recorded.
C9_NoCapacityIsFatal ==
    (~sequential /\ cap <= 0 /\ pc \notin {"constructed", "ready", "start"})
        => /\ pc \in {"cleanup", "finish", "raised"}
           /\ exc = "RuntimeError"
           /\ pulled = {} /\ recorded = << >> /\ n_servers = 0
           /\ \A w \in Workers : tpc[w] = "none" /\ allocated[w] = 0

\* C9 witness: the run with no capacity has ended with the error.
C9_Witness ==
    ~sequential /\ cap <= 0 /\ pc = "raised" /\ exc = "RuntimeError"

\* C10 (as claimed): a concurrent run in which threads were started and
\* every allocation failed does not return normally.
C10_NoServerIsFatal ==
    (pc = "returned" /\ ~sequential)
        => ~(n_servers > 0 /\ \A w \in Workers : allocated[w] = 0)

Last(q) == q[Len(q)]

\* A request is queued for the server's thread or a reply of it is waiting
\* for the coordinator.
Outstanding(w) ==
    \/ request_q[w] # << >>
    \/ \E i \in DOMAIN reply_q : reply_q[i].name = w

\* The failures injected so far that are model executions that raised or
\* outputs that could not be read back.
ExecFaults ==
    Cardinality({x \in Cases \X (1..(MaxRetries + MaxFaults + 1)) :
                    /\ x[2] \in DOMAIN hist[x[1]]
                    /\ hist[x[1]][x[2]] \in {"raise", "raise_blank"}})
    + Cardinality({i \in DOMAIN recorded : recorded[i].msg = "get"})

AllRecorded == \A c \in Cases : TimesRecorded(c) = 1

\* C11 (as claimed): a case whose model execution raised is recorded with a
\* non-empty failure message.
C11_RaisedExecutionHasMessage ==
    \A c \in Cases :
       (hist[c] # << >> /\ Last(hist[c]) \in {"raise", "raise_blank"})
          => \A r \in RecordsOf(c) : Failed(r)

C13_EggTransferredOnce ==
    \A w \in Workers :
       /\ transfers[w] <= 1
       /\ (w \in DOMAIN server_info /\ server_info[w]) => transfers[w] = 1

\* C13 witness: with one server and a reload after every case, two cases are
\* recorded and the load request that followed the second one has been
\* served (the third on that server), with one transfer.
C13_Witness ==
    /\ ~sequential /\ cap = 1 /\ reload_model
    /\ Len(recorded) = 2
    /\ tpc[1] = "serving" /\ request_q[1] = << >>
    /\ \E i \in DOMAIN reply_q : reply_q[i].name = 1
    /\ 1 \in DOMAIN server_states /\ server_states[1] = READY
    /\ transfers[1] = 1

\* C14 (as claimed): after the coordinator raised in a concurrent run, every
\* server that was allocated and is not yet released belongs to a thread that
\* can still go on (to its release).
C14_ReleasedAfterCoordinatorError ==
    (~sequential /\ pc = "raised" /\ exc = "KeyError")
        => \A w \in Workers : allocated[w] > released[w] => ~Idle(w)

\* C15 (as claimed): in sequential mode no case is pulled from the case
\* source after stop() was called.
C15_NoPullAfterStop == sequential => ~late_pulls

\* C16 (as claimed): a case is the in-flight case of at most one server, and
\* a case waiting in rerun is the in-flight case of none.
C16_OneServerPerCase ==
    ~sequential =>
       /\ \A s1, s2 \in DOMAIN server_cases :
             (s1 # s2 /\ server_cases[s1] # NoCase)
                => server_cases[s1] # server_cases[s2]
       /\ \A i \in DOMAIN rerun : \A s \in DOMAIN server_cases :
             server_cases[s] # rerun[i]

\* C16 (amended): among the servers that are not in the Error state a case
\* is the in-flight case of at most one, and a case waiting in rerun or todo
\* is the in-flight case of none of them; a server in Error keeps the case
\* whose inputs could not be applied.
C16_OneLiveServerPerCase ==
    ~sequential =>
       /\ \A s1, s2 \in DOMAIN server_cases :
             (/\ s1 # s2 /\ server_cases[s1] # NoCase
              /\ server_states[s1] # ERROR /\ server_states[s2] # ERROR)
                => server_cases[s1] # server_cases[s2]
       /\ \A s \in DOMAIN server_cases :
             server_states[s] # ERROR
                => /\ \A i \in DOMAIN rerun : server_cases[s] # rerun[i]
                   /\ \A i \in DOMAIN todo : server_cases[s] # todo[i]
       /\ \A s \in DOMAIN server_cases :
             (server_states[s] = ERROR /\ server_cases[s] # NoCase)
                => \E i \in DOMAIN hist[server_cases[s]] :
                      hist[server_cases[s]][i] = "setfail"

\* C16 witness: a case whose inputs could not be applied on one server is
\* being run on another one.
C16_Witness ==
    /\ ~sequential
    /\ \E s1, s2 \in DOMAIN server_cases :
          /\ s1 # s2 /\ server_states[s1] = ERROR
          /\ server_states[s2] = COMPLETE
          /\ server_cases[s1] # NoCase
          /\ server_cases[s2] = server_cases[s1]

\* C17: resume() called after a run that returned with the case source
\* exhausted raises 'Run already complete'; it records nothing, pulls
\* nothing, starts no thread and allocates nothing.
C17_FinishedRunIsRefused ==
    [][(pc = "returned" /\ iter = IterNone /\ pc' # pc)
          => /\ pc' = "raised" /\ exc' = "RunComplete"
             /\ recorded' = recorded /\ pulled' = pulled
             /\ n_servers' = n_servers /\ tpc' = tpc
             /\ allocated' = allocated]_vars

\* C17 witness: every case was recorded and a further resume() was refused.
C17_Witness ==
    pc = "raised" /\ exc = "RunComplete" /\ AllRecorded

\* Nothing but model executions and reading outputs has failed, the model is
\* reloaded between cases, there is capacity and nobody asked to stop.
Benign ==
    /\ ~sequential /\ reload_model /\ cap >= 1 /\ ~stop_called
    /\ faults = ExecFaults

\* C18: a concurrent run with reload_model true in which every allocation,
\* load and input assignment succeeds returns in the end, with every case
\* recorded, when the coordinator and the service threads keep running.
C18_RunReturns == ([]Benign) => <>(pc = "returned" /\ AllRecorded)

\* C18 witness: such a run has returned with every case recorded, one of
\* them with an execution that raised.
C18_Witness ==
    /\ Benign /\ pc = "returned" /\ AllRecorded
    /\ \E c \in Cases : hist[c] = << "raise" >>

\* C19 (as claimed): with reload_model false a server in use that is Ready
\* will be driven again: a request or a reply of it is outstanding.
C19_ReadyServerIsDriven ==
    \A w \in DOMAIN in_use :
       (/\ ~sequential /\ ~reload_model /\ faults = 0
        /\ pc \in {"startup", "startup_events", "main"}
        /\ in_use[w] /\ server_states[w] = READY)
          => Outstanding(w)

\* C20 (as claimed): a server in use that is in the Error state will be
\* driven again: a request or a reply of it is outstanding.
C20_ErrorServerIsDriven ==
    \A w \in DOMAIN in_use :
       (/\ ~sequential
        /\ pc \in {"startup", "startup_events", "main"}
        /\ in_use[w] /\ server_states[w] = ERROR)
          => Outstanding(w)

\* The coordinator takes the reply at the head of the reply queue in the
\* start-up loop or the main loop.
Handles ==
    /\ pc \in {"startup_events", "main"}
    /\ reply_q # << >>
    /\ reply_q' = Tail(reply_q)

\* The reply to a load request that returned nothing or raised: its sender
\* is registered and was made Ready when the request was queued.
FailedLoadReply(r) ==
    /\ r.name \in DOMAIN servers /\ servers[r.name]
    /\ r.name \in DOMAIN server_states /\ server_states[r.name] = READY
    /\ r.exc \/ ~r.result

\* C21 (as claimed): when the coordinator handles the reply of a load
\* request that failed on a server, the server is put in the Error state
\* (from which the load is tried again) and is given no case.
C21_FailedLoadGivesError ==
    [][Handles =>
          LET r == Head(reply_q) IN
          FailedLoadReply(r)
             => /\ server_states'[r.name] = ERROR
                /\ server_cases'[r.name] = NoCase]_vars

\* C22 (as claimed): a service thread that takes a load or execute request
\* from its queue while the run is in progress puts exactly one reply on
\* the reply queue, whether the request raises or not.
C22_OneReplyPerRequest ==
    [][\A w \in Workers :
          (/\ server_lock /\ tpc[w] = "serving"
           /\ request_q[w] # << >>
           /\ Len(request_q'[w]) = Len(request_q[w]) - 1)
             => (Head(request_q[w]) \in {"load", "exec"}
                   => /\ Len(reply_q') = Len(reply_q) + 1
                      /\ reply_q'[Len(reply_q')].name = w)]_vars

\* _run_case is called for case c on server s: the server's entry in
\* _server_cases becomes c.
Assigns(s, c) ==
    /\ s \in DOMAIN server_cases /\ s \in DOMAIN server_cases'
    /\ server_cases[s] # c /\ server_cases'[s] = c

\* C23 (as claimed): a case that was pulled from the source while another
\* case waited in rerun is assigned for the first time only when rerun has
\* been emptied.
C23_RetryBeforeLaterCase ==
    [][\A s \in Workers \cup {NoServer} : \A c \in jumped :
          (Assigns(s, c) /\ hist[c] = << >>) => rerun = << >>]_vars

\* C23 (amended): the case given to a server is the first of todo; when
\* todo is empty, the first of rerun; when both are empty, the next case of
\* the source.  So a retry goes before any case a Ready server would pull,
\* but after the cases the start-up loop put in todo.
C23_TodoThenRerunThenSource ==
    [][\A s \in Workers \cup {NoServer} : \A c \in Cases :
          Assigns(s, c) =>
             IF todo # << >>
             THEN c = Head(todo) /\ todo' = Tail(todo)
             ELSE IF rerun # << >>
             THEN /\ c = Head(rerun) /\ todo' = todo
                  /\ rerun' \in {Tail(rerun), Append(Tail(rerun), c)}
             ELSE /\ c = iter + 1 /\ c \notin pulled
                  /\ pulled' = pulled \cup {c} /\ todo' = todo]_vars

\* C23 witness: a case whose inputs could not be applied on one server was
\* taken from rerun and is running on another one while the source still
\* has cases.
C23_Witness ==
    /\ ~sequential /\ iter # IterNone /\ iter < NCases
    /\ \E s \in DOMAIN server_cases :
          /\ server_states[s] = COMPLETE /\ server_cases[s] # NoCase
          /\ Len(hist[server_cases[s]]) >= 1
          /\ hist[server_cases[s]][1] = "setfail"

\* C24: a case's retries never exceed its max_retries; a case waiting in
\* rerun has been queued with retries below the limit (so its count, one
\* more, is within it) and is not recorded; no case is attempted more than
\* max_retries + 1 times, nor more than retries + 1 times; a case recorded
\* with the message of an input failure has retries equal to max_retries
\* and is not in rerun.
C24_RetriesBounded ==
    \A c \in Cases :
       /\ cases[c].retries <= cases[c].max_retries
       /\ Len(hist[c]) <= cases[c].max_retries + 1
       /\ Len(hist[c]) <= cases[c].retries + 1
       /\ (\E i \in DOMAIN rerun : rerun[i] = c)
             => /\ cases[c].retries >= 1
                /\ TimesRecorded(c) = 0
       /\ \A r \in RecordsOf(c) :
             r.msg = "set"
                => /\ r.retries = cases[c].max_retries
                   /\ cases[c].retries = r.retries
                   /\ \A i \in DOMAIN rerun : rerun[i] # c

\* C24 witness: a case that may be retried was attempted max_retries + 1
\* times, every time with an input failure, and is recorded with it.
C24_Witness ==
    \E c \in Cases :
       /\ cases[c].max_retries >= 1
       /\ cases[c].retries = cases[c].max_retries
       /\ Len(hist[c]) = cases[c].max_retries + 1
       /\ \E r \in RecordsOf(c) : r.msg = "set"
       /\ \A i \in DOMAIN rerun : rerun[i] # c

\* Service thread w takes the request at the head of its queue.
Takes(w) ==
    /\ tpc[w] = "serving" /\ request_q[w] # << >>
    /\ request_q'[w] = Tail(request_q[w])

\* C25: requests leave a server's queue at the head and enter it at the
\* tail, so they are executed in the order they were submitted; the first
\* request a service thread executes is a load; an execute request is
\* executed only directly after a load on the same server, so a load always
\* lies between two executions, whatever the outcome of the first.
C25_LoadBeforeExecute ==
    [][\A w \in Workers :
          /\ request_q'[w] # request_q[w]
                => \/ Takes(w)
                   \/ \E x \in {"load", "exec", "quit"} :
                         request_q'[w] = Append(request_q[w], x)
                   \/ tpc[w] = "allocated" /\ request_q'[w] = << >>
          /\ (Takes(w) /\ Head(request_q[w]) # "quit")
                => /\ last_req'[w] = Head(request_q[w])
                   /\ last_req[w] = "none" => Head(request_q[w]) = "load"
                   /\ Head(request_q[w]) = "exec" => last_req[w] = "load"]_vars

\* C25 witness: with reload_model true a server has executed a second case:
\* two cases are recorded, or one is and another one is being harvested,
\* and only one thread was started.
C25_Witness ==
    /\ ~sequential /\ reload_model /\ n_servers = 1
    /\ last_req[1] = "exec" /\ Len(recorded) >= 1
    /\ \E c \in Cases : TimesRecorded(c) = 0 /\ Len(hist[c]) = 1
                        /\ hist[c][1] \in RunOutcomes

\* C26 (as claimed): a registered server is given a case only when a load
\* request has succeeded on it: a server whose first load failed is
\* abandoned, never made Ready.
C26_NoCaseOnUnloadedServer ==
    \A w \in Workers :
       (w \in DOMAIN server_cases /\ server_cases[w] # NoCase)
          => w \in top_levels

\* A service thread is started: n_servers of _start goes up by one.
StartsThread == n_servers' = n_servers + 1

C28_SentinelsAfterAllIdle ==
    /\ [](\A w \in Workers :
             (\E i \in DOMAIN request_q[w] : request_q[w][i] = "quit")
                => /\ request_q[w] = << "quit" >>
                   /\ pc \in {"shutdown_wait", "cleanup", "finish",
                              "returned", "raised"})
    /\ [][(pc = "main" /\ pc' = "shutdown_wait")
             => /\ ~Busy /\ InFlight = {} /\ reply_q = << >>
                /\ \A w \in Workers :
                      /\ request_q[w] = << >>
                      /\ request_q'[w] = IF w \in queues THEN << "quit" >>
                                         ELSE << >>]_vars
    /\ [][\A w \in Workers :
             (/\ w \in DOMAIN in_use /\ w \in DOMAIN in_use'
              /\ in_use[w] /\ ~in_use'[w])
                => request_q[w] = << >> /\ request_q'[w] = << >>]_vars

\* C28 witness: the shut-down request has just been sent to two registered
\* servers, after a case was recorded.
C28_Witness ==
    /\ pc = "shutdown_wait" /\ queues = {1, 2}
    /\ request_q[1] = << "quit" >> /\ request_q[2] = << "quit" >>
    /\ shut_i = 2 /\ Len(recorded) >= 1

\* C29 (as claimed): when nothing is left to do and the coordinator waits in
\* the main loop for the reply of a server in use, the wait is bounded: if
\* no reply comes, some step of the coordinator still leaves that state.
C29_WaitIsBounded ==
    (/\ ~sequential /\ pc = "main" /\ NothingLeft
     /\ Busy /\ reply_q = << >>)
       => ENABLED <<Coordinator>>_vars

\* C30: in a concurrent run a case that was in flight when stop() was
\* called is never recorded twice, and it has been recorded once when the
\* shut-down requests are sent and from then on; by then no case is in
\* flight.
C30_InFlightAtStopRecorded ==
    ~sequential =>
       /\ \A c \in stopped_in_flight : TimesRecorded(c) <= 1
       /\ pc = "shutdown_wait" => InFlight = {}
       /\ (/\ pc \in {"shutdown_wait", "cleanup", "finish", "returned",
                      "raised"}
           /\ exc \in {"none", "RunStopped"})
             => \A c \in stopped_in_flight : TimesRecorded(c) = 1

\* C30 witness: stop() was called while a case was in flight and the
\* shut-down requests have just been sent.
C30_Witness ==
    /\ ~sequential /\ stop_called /\ stopped_in_flight # {}
    /\ pc = "shutdown_wait" /\ shut_i = Cardinality(queues) /\ shut_i >= 1
    /\ \E w \in queues : request_q[w] = << "quit" >>

C32_EggKeptOnRequest ==
    (~sequential /\ pc \in {"finish", "returned", "raised"} /\ ~remove_egg)
       => egg_file

\* The coordinator applies inputs to the model of server w (_run_case) or
\* reads its status and outputs (the Complete branch of _server_ready).
TouchesModel(w) ==
    /\ w \in DOMAIN server_states /\ w \in DOMAIN server_states'
    /\ \/ \E c \in Cases : Assigns(w, c)
       \/ server_states[w] = COMPLETE /\ server_states'[w] # COMPLETE

\* C33: a service thread never has more than one request queued or in
\* progress; the coordinator touches the model of a server only while
\* handling a reply of that server, when its request queue is empty.
C33_OneRequestPerServer ==
    /\ [](\A w \in Workers : Len(request_q[w]) <= 1)
    /\ [][\A w \in Workers :
             TouchesModel(w)
                => /\ request_q[w] = << >>
                   /\ Handles /\ Head(reply_q).name = w]_vars

\* C33 witness: the coordinator has applied the inputs of a case to one
\* server, whose thread has the request to run it, while the thread of the
\* other server has a request to load the model.
C33_Witness ==
    \E w1, w2 \in DOMAIN server_states :
       /\ w1 # NoServer /\ w2 # NoServer /\ w1 # w2
       /\ server_states[w1] = COMPLETE /\ request_q[w1] = << "exec" >>
       /\ request_q[w2] = << "load" >>

\* C34 (as claimed): when a sequential run, possibly stopped and continued
\* with resume(), has returned with the case source exhausted, every case
\* has been recorded exactly once.
C34_ResumedRunRecordsAll ==
    (sequential /\ pc = "returned" /\ iter = IterNone)
       => \A c \in Cases : TimesRecorded(c) = 1

\* C35: in sequential mode, as long as stop() was never called, the i-th
\* record is that of the i-th case of the source; a case is recorded, after
\* all its retries, before the next one is pulled; resume() raises only
\* when called again after the run, and when it has returned the source is
\* exhausted and all cases are recorded.
C35_SequentialInOrder ==
    (sequential /\ ~stopped_once)
       => /\ \A i \in DOMAIN recorded : recorded[i].case = i
          /\ \A c \in pulled :
                (\E d \in pulled : d > c) => TimesRecorded(c) = 1
          /\ pc = "raised" => exc = "RunComplete"
          /\ pc \in {"returned", "raised"}
                => /\ iter = IterNone /\ pulled = Cases
                   /\ Len(recorded) = NCases

\* C35 witness: a sequential run without a stop request has returned with
\* all cases recorded, one of them after a retry.
C35_Witness ==
    /\ sequential /\ ~stopped_once /\ pc = "returned"
    /\ Len(recorded) = NCases
    /\ \E c \in Cases : Len(hist[c]) >= 2 /\ TimesRecorded(c) = 1

\* C36 (as claimed): a case created with max_retries 0 is never placed in
\* rerun, whatever the driver's max_retries: it keeps 0 retries and is
\* recorded by the attempt in which its inputs could not be applied.
C36_OwnZeroIsNeverRetried ==
    \A c \in Cases :
       own_max_retries[c] = 0
          => /\ \A i \in DOMAIN rerun : rerun[i] # c
             /\ cases[c].retries = 0
             /\ (hist[c] # << >> /\ hist[c][1] = "setfail")
                   => TimesRecorded(c) = 1

=============================================================================
